---------------------------- MODULE Spec2Model ----------------------------
(***************************************************************************)
(* csoup::internal::Vector<T> (src/src/internal/vector.h): a growable      *)
(* array over raw memory obtained from an injected allocator.              *)
(*                                                                         *)
(* Pointers are integers.  The allocator hands out blocks; block b starts  *)
(* at address b * Stride and addresses are counted in elements             *)
(* (sizeof(T) = 1 unit).  NULL is 0.  stack_, stackTop_ and stackEnd_ are  *)
(* such addresses, so size() = stackTop_ - stack_ exactly as in the code.  *)
(* A cell of a block holds a value of T or Raw (no live object there).     *)
(***************************************************************************)
EXTENDS Integers, Sequences, FiniteSets, TLC

\* ---- bounds of the model ------------------------------------------------
MaxVal == 3       \* values of T are 1..MaxVal
MaxLen == 3       \* size() explored once a call other than push was made
MaxCap == 5       \* capacity() explored once a call other than push was made
MaxPush == 5      \* size() explored while only push(const T&) was called
MaxPushCap == 8   \* capacity() explored while only push(const T&) was called
MaxInit == 2      \* the constructor is given a capacity in 0..MaxInit
MaxItLen == 2     \* size() explored while a cursor exists
MaxItCap == 2     \* capacity() explored while a cursor exists

Val == 1..MaxVal
Raw == 0
NULL == 0
Stride == MaxCap + MaxPushCap + 2
Blocks == {1, 2}
Indexes == 0..MaxLen
Counts == 0..MaxCap

VARIABLES
    allocator_,        \* Vector::allocator_ (a non-null handle)
    stack_,            \* Vector::stack_
    stackTop_,         \* Vector::stackTop_
    stackEnd_,         \* Vector::stackEnd_
    initialCapacity_,  \* Vector::initialCapacity_
    heap,              \* allocator state: block -> cells of the block
    allocated,         \* allocator state: blocks currently handed out
    exhausted,         \* allocator state: it has run out of memory
    pc,                \* "idle": in the caller; "returned": a call just
                       \* completed; "halt": a CSOUP_ASSERT failed;
                       \* "destroyed": ~Vector ran; "undefined": a call
                       \* used a pointer to storage it does not hold
    lastOp,            \* history: the call that just completed or halted
    pushed,            \* history: values given to push(const T&) so far
    onlyPush,          \* history: every call so far was push(const T&)
    roundTrip,         \* history: a push or insert, and its undoing if next
    it,                \* the caller's VectorIterator (pos_, size_, base_)
    trav               \* history: the forward traversal under way with it

vars == <<allocator_, stack_, stackTop_, stackEnd_, initialCapacity_,
          heap, allocated, exhausted, pc, lastOp, pushed, onlyPush, roundTrip, it, trav>>

\* ---- addresses ----------------------------------------------------------
BlockOf(p) == p \div Stride

OffsetOf(p) == p % Stride

BaseAddr(b) == b * Stride

Min(a, b) == IF a < b THEN a ELSE b

\* The object: the fields of Vector plus the allocator's memory, and what the
\* running member function did so far: calls, the allocator calls it made;
\* wild, whether it used a pointer that designates no storage of a handed-out
\* block; ctors and dtors, how many T it constructed and destroyed; dead, how
\* many destructor calls ran where no T lived; lost, how many live T were in
\* storage it gave back.
Self ==
    [allocator_ |-> allocator_, stack_ |-> stack_, stackTop_ |-> stackTop_,
     stackEnd_ |-> stackEnd_, initialCapacity_ |-> initialCapacity_,
     heap |-> heap, allocated |-> allocated, exhausted |-> exhausted,
     calls |-> <<>>,
     wild |-> FALSE, ctors |-> 0, dtors |-> 0, dead |-> 0, lost |-> 0]

\* ---- memory -------------------------------------------------------------
\* *p for a T* p.  A read outside a handed-out block yields Raw.
Deref(w, p) ==
    IF /\ BlockOf(p) \in w.allocated
       /\ OffsetOf(p) < Len(w.heap[BlockOf(p)])
    THEN w.heap[BlockOf(p)][OffsetOf(p) + 1]
    ELSE Raw

\* The n cells starting at p are storage of a handed-out block.
Owned(w, p, n) ==
    /\ BlockOf(p) \in w.allocated
    /\ OffsetOf(p) + n <= Len(w.heap[BlockOf(p)])

\* The number of cells of s that hold a live T.
Live(s) == Cardinality({i \in 1..Len(s) : s[i] # Raw})

\* Store v in the cell at p (placement new, or a destructor leaving Raw).
Store(w, p, v) ==
    IF /\ BlockOf(p) \in w.allocated
       /\ OffsetOf(p) < Len(w.heap[BlockOf(p)])
    THEN [w EXCEPT !.heap[BlockOf(p)][OffsetOf(p) + 1] = v]
    ELSE [w EXCEPT !.wild = TRUE]

\* new (p) T(obj)
Construct(w, p, obj) == [Store(w, p, obj) EXCEPT !.ctors = @ + 1]

\* p->~T()
Destruct(w, p) ==
    [Store(w, p, Raw) EXCEPT !.dtors = @ + 1,
                             !.dead = IF Deref(w, p) = Raw THEN @ + 1 ELSE @]

\* std::memmove(dst, src, n * sizeof(T)): the n cells starting at src are
\* relocated to dst; a source cell that is not overwritten holds no object
\* afterwards.
memmove(w, dst, src, n) ==
    LET b == BlockOf(src)
        old == w.heap[b]
        so == OffsetOf(src)
        do == OffsetOf(dst)
        moved == [i \in 1..Len(old) |->
                    IF i - 1 >= do /\ i - 1 < do + n THEN old[i - do + so]
                    ELSE IF i - 1 >= so /\ i - 1 < so + n THEN Raw
                    ELSE old[i]]
    IN IF n <= 0 THEN w
       ELSE IF ~(Owned(w, src, n) /\ Owned(w, dst, n) /\ BlockOf(dst) = b)
       THEN [w EXCEPT !.wild = TRUE]
       ELSE [w EXCEPT !.heap[b] = moved]

\* ptr is the address of a block the allocator handed out and was not given
\* back.
HandedOut(w, ptr) == BlockOf(ptr) \in w.allocated /\ OffsetOf(ptr) = 0

\* Allocator::realloc(ptr, oldSize, newSize), returning address p: a block of
\* newCount cells whose first min(oldCount, newCount) cells are those of the
\* block at ptr; the block at ptr is given back unless p is that block.  With
\* p = NULL the allocator signals failure and the block at ptr is as it was.
AllocatorRealloc(w, ptr, oldCount, newCount, p) ==
    LET ok == ptr = NULL \/ HandedOut(w, ptr)
        old == IF ptr = NULL \/ ~ok THEN <<>> ELSE w.heap[BlockOf(ptr)]
        keep == Min(Min(oldCount, newCount), Len(old))
        cells == [i \in 1..newCount |-> IF i <= keep THEN old[i] ELSE Raw]
        h1 == IF ptr = NULL \/ ~ok THEN w.heap
              ELSE [w.heap EXCEPT ![BlockOf(ptr)] = <<>>]
        a1 == IF ptr = NULL \/ ~ok THEN w.allocated
              ELSE w.allocated \ {BlockOf(ptr)}
    IN IF p = NULL
       THEN [w EXCEPT !.calls = Append(@, "realloc failed"),
                      !.exhausted = TRUE,
                      !.wild = @ \/ ~ok]
       ELSE [w EXCEPT !.heap = [h1 EXCEPT ![BlockOf(p)] = cells],
                      !.allocated = a1 \cup {BlockOf(p)},
                      !.calls = Append(@, "realloc"),
                      !.wild = @ \/ ~ok,
                      !.lost = @ + Live(old) - Live(cells)]

\* Allocator::free(ptr): no effect on NULL.
AllocatorFree(w, ptr) ==
    IF ptr = NULL THEN [w EXCEPT !.calls = Append(@, "free")]
    ELSE IF ~HandedOut(w, ptr)
    THEN [w EXCEPT !.calls = Append(@, "free"), !.wild = TRUE]
    ELSE [w EXCEPT !.heap[BlockOf(ptr)] = <<>>,
                   !.allocated = @ \ {BlockOf(ptr)},
                   !.calls = Append(@, "free"),
                   !.lost = @ + Live(w.heap[BlockOf(ptr)])]

\* The allocator behind the handle: SoundAllocator always finds memory,
\* ExhaustibleAllocator may run out of it, and then stays so.
SoundAllocator == 1

ExhaustibleAllocator == 2

\* The addresses realloc(ptr, ..) may return: the block at ptr grown or
\* shrunk in place, or any block that is not handed out; NULL when the
\* allocator can fail.
ReallocResults(w, ptr) ==
    IF w.exhausted THEN {NULL}
    ELSE {BaseAddr(b) : b \in (Blocks \ w.allocated) \cup
                (IF ptr = NULL THEN {} ELSE {BlockOf(ptr)} \cap Blocks)}
            \cup (IF w.allocator_ = ExhaustibleAllocator THEN {NULL} ELSE {})

\* ---- Vector: observers --------------------------------------------------
size(w) == w.stackTop_ - w.stack_

capacity(w) == w.stackEnd_ - w.stack_

empty(w) == size(w) = 0

\* The element sequence: *at(0), ..., *at(size() - 1).
Elems(w) == [i \in 1..size(w) |-> Deref(w, w.stack_ + (i - 1))]

\* ---- Vector: private members --------------------------------------------
\* resize that forgets to rebase stackTop_ on the block realloc returned.
resize_staleTop(w, count, p) ==
    LET w1 == AllocatorRealloc(w, w.stack_, capacity(w), count, p)
    IN [w1 EXCEPT !.stack_ = p, !.stackEnd_ = p + count]

resize(w, count, p) ==
    LET oriSize == size(w)
        w1 == AllocatorRealloc(w, w.stack_, capacity(w), count, p)
    IN [w1 EXCEPT !.stack_ = p,
                  !.stackTop_ = p + oriSize,
                  !.stackEnd_ = p + count]

\* expand that grows by floor(capacity / 2) instead of ceil.
expand_floorHalf(w, count, p) ==
    LET c0 == IF w.stack_ = NULL THEN w.initialCapacity_
              ELSE capacity(w) + capacity(w) \div 2
        newSize == size(w) + count
        newCapacity == IF c0 < newSize THEN newSize ELSE c0
    IN resize(w, newCapacity, p)

expand(w, count, p) ==
    LET c0 == IF w.stack_ = NULL THEN w.initialCapacity_
              ELSE capacity(w) + (capacity(w) + 1) \div 2
        newSize == size(w) + count
        newCapacity == IF c0 < newSize THEN newSize ELSE c0
    IN resize(w, newCapacity, p)

ensureExtraSize(w, count, p) ==
    IF w.stackTop_ + count >= w.stackEnd_
    THEN expand(w, count + size(w) - capacity(w), p)
    ELSE w

\* ---- Vector: public members ---------------------------------------------
\* clear that destroys the elements but leaves stackTop_ where it was.
clear_keepsTop(w) ==
    LET loop[k \in 0..size(w)] ==
            IF k = 0 THEN w ELSE Destruct(loop[k - 1], w.stack_ + (k - 1))
    IN loop[size(w)]

clear(w) ==
    LET loop[k \in 0..size(w)] ==
            IF k = 0 THEN w ELSE Destruct(loop[k - 1], w.stack_ + (k - 1))
    IN [loop[size(w)] EXCEPT !.stackTop_ = w.stack_]

\* shrinkToFit that reallocates to capacity() instead of size().
shrinkToFit_keepsCapacity(w, p) ==
    IF empty(w)
    THEN LET w1 == AllocatorFree(clear(w), w.stack_)
         IN [w1 EXCEPT !.stack_ = NULL, !.stackTop_ = NULL, !.stackEnd_ = NULL]
    ELSE resize(w, capacity(w), p)

\* shrinkToFit that releases the buffer of an empty array but keeps the
\* pointers to it.
shrinkToFit_keepsPointers(w, p) ==
    IF empty(w)
    THEN AllocatorFree(clear(w), w.stack_)
    ELSE resize(w, size(w), p)

shrinkToFit(w, p) ==
    IF empty(w)
    THEN LET w1 == AllocatorFree(clear(w), w.stack_)
         IN [w1 EXCEPT !.stack_ = NULL, !.stackTop_ = NULL, !.stackEnd_ = NULL]
    ELSE resize(w, size(w), p)

push(w, obj, p) ==
    LET w1 == ensureExtraSize(w, 1, p)
        w2 == Construct(w1, w1.stackTop_, obj)
    IN [w2 EXCEPT !.stackTop_ = @ + 1]

\* T* push(): the slot is handed to the caller unconstructed.
pushSlot(w, p) ==
    LET w1 == ensureExtraSize(w, 1, p)
    IN [w1 EXCEPT !.stackTop_ = @ + 1]

\* pop without its CSOUP_ASSERT(!empty()).
popPre_missing(w) == TRUE

popPre(w) == ~empty(w)

\* pop that destroys the last element but leaves stackTop_ where it was.
pop_noDecrement(w) == Destruct(w, w.stackTop_ - 1)

pop(w) ==
    LET w1 == [w EXCEPT !.stackTop_ = @ - 1]
    IN Destruct(w1, w1.stackTop_)

\* at whose check lets the index size() through.
atPre_inclusive(w, i) == i <= size(w)

atPre(w, i) == i < size(w)

at(w, i) == w.stack_ + i

reserve(w, n, p) ==
    IF n > size(w) THEN ensureExtraSize(w, n - size(w), p) ELSE w

removePre(w, index) == index < size(w)

\* remove whose memmove is one element short.
remove_shortMove(w, index) ==
    LET w1 == Destruct(w, at(w, index))
        w2 == memmove(w1, w1.stack_ + index, w1.stack_ + index + 1,
                      size(w1) - index - 2)
    IN [w2 EXCEPT !.stackTop_ = @ - 1]

remove(w, index) ==
    LET w1 == Destruct(w, at(w, index))
        w2 == memmove(w1, w1.stack_ + index, w1.stack_ + index + 1,
                      size(w1) - index - 1)
    IN [w2 EXCEPT !.stackTop_ = @ - 1]

\* insert whose memmove is one element short.
insert_shortMove(w, index0, obj, p) ==
    LET index == IF index0 > size(w) THEN size(w) ELSE index0
        w1 == ensureExtraSize(w, 1, p)
        w2 == memmove(w1, w1.stack_ + index + 1, w1.stack_ + index,
                      size(w1) - index - 1)
        w3 == Construct(w2, w2.stack_ + index, obj)
    IN [w3 EXCEPT !.stackTop_ = @ + 1]

\* insert that does not clamp index to size().
insert_noClamp(w, index, obj, p) ==
    LET w1 == ensureExtraSize(w, 1, p)
        w2 == memmove(w1, w1.stack_ + index + 1, w1.stack_ + index,
                      size(w1) - index)
        w3 == Construct(w2, w2.stack_ + index, obj)
    IN [w3 EXCEPT !.stackTop_ = @ + 1]

insert(w, index0, obj, p) ==
    LET index == IF index0 > size(w) THEN size(w) ELSE index0
        w1 == ensureExtraSize(w, 1, p)
        w2 == memmove(w1, w1.stack_ + index + 1, w1.stack_ + index,
                      size(w1) - index)
        w3 == Construct(w2, w2.stack_ + index, obj)
    IN [w3 EXCEPT !.stackTop_ = @ + 1]

\* T* insert(size_t): the slot is handed to the caller unconstructed.
insertSlot(w, index0, p) ==
    LET index == IF index0 > size(w) THEN size(w) ELSE index0
        w1 == ensureExtraSize(w, 1, p)
        w2 == memmove(w1, w1.stack_ + index + 1, w1.stack_ + index,
                      size(w1) - index)
    IN [w2 EXCEPT !.stackTop_ = @ + 1]

\* The two CSOUP_ASSERTs of the constructor.
VectorPre(vectorCapacity, allocator) ==
    vectorCapacity > 0 /\ allocator # NULL

\* ~Vector() that releases the buffer without destroying the elements.
VectorDtor_noClear(w) == AllocatorFree(w, w.stack_)

\* ~Vector()
VectorDtor(w) ==
    LET w1 == clear(w)
    IN AllocatorFree(w1, w1.stack_)

backPre(w) == ~empty(w)

back(w) == w.stackTop_ - 1

frontPre(w) == ~empty(w)

front(w) == w.stack_

\* ---- VectorIterator ----------------------------------------------------
VectorIterator(s, p, base) == [pos_ |-> p, size_ |-> s, base_ |-> base]

begin(w) == VectorIterator(size(w), 0, w.stack_)

end(w) == VectorIterator(size(w), size(w), w.stack_)

\* hasNext that is true up to the last element included.
hasNext_inclusive(i) == i.pos_ < i.size_

hasNext(i) == i.pos_ + 1 < i.size_

nextPre(i) == hasNext(i)

next(i) == [i EXCEPT !.pos_ = @ + 1]

hasPrevious(i) == i.pos_ > 0

previousPre(i) == hasPrevious(i)

previous(i) == [i EXCEPT !.pos_ = @ - 1]

dataPre(i) == i.pos_ < i.size_

data(i) == i.base_ + i.pos_

\* ---- the program as a state machine -------------------------------------
\* The part of the state space that is explored.
NoArg == 0 - 1

\* No cursor is in scope.
NoIt == VectorIterator(NoArg, NoArg, NULL)

\* No traversal is under way.
NoTrav == [expect |-> "none", seen |-> <<>>]

InBounds(w, pure) ==
    /\ IF pure THEN capacity(w) <= MaxPushCap /\ size(w) <= MaxPush
       ELSE capacity(w) <= MaxCap /\ size(w) <= MaxLen
    /\ it # NoIt => capacity(w) <= MaxItCap /\ size(w) <= MaxItLen

NoCall ==
    [name |-> "none", arg |-> NoArg, obj |-> Raw, pre |-> <<>>, preCap |-> 0,
     preStack |-> NULL, calls |-> <<>>, ret |-> NoArg,
     ctors |-> 0, dtors |-> 0, dead |-> 0, lost |-> 0]

NoRoundTrip == [kind |-> "none", arg |-> NoArg, pre |-> <<>>]

Reallocated(op) == \E k \in 1..Len(op.calls) : op.calls[k] = "realloc"

Released(op) == \E k \in 1..Len(op.calls) : op.calls[k] = "free"

\* The record of a call made on the object in its current state, which left
\* the object as w.
CallRecord(name, arg, obj, w, ret) ==
    [name |-> name, arg |-> arg, obj |-> obj, pre |-> Elems(Self),
     preCap |-> capacity(Self), preStack |-> stack_, calls |-> w.calls,
     ret |-> ret,
     ctors |-> w.ctors, dtors |-> w.dtors, dead |-> w.dead, lost |-> w.lost]

\* A member function of Vector ran to its end and left the object as w; to
\* is where control is then, unless the function used a pointer to storage
\* the object does not hold, after which nothing is known.
Finish(name, arg, obj, w, ret, to) ==
    /\ allocator_' = w.allocator_
    /\ stack_' = w.stack_
    /\ stackTop_' = w.stackTop_
    /\ stackEnd_' = w.stackEnd_
    /\ initialCapacity_' = w.initialCapacity_
    /\ heap' = w.heap
    /\ allocated' = w.allocated
    /\ exhausted' = w.exhausted
    /\ pc' = IF w.wild THEN "undefined" ELSE to
    /\ lastOp' = CallRecord(name, arg, obj, w, ret)
    /\ it' = it
    /\ trav' = NoTrav

\* A member function ran to completion, left the object as w and returned
\* ret.
Return(name, arg, obj, w, ret) == Finish(name, arg, obj, w, ret, "returned")

\* CSOUP_ASSERT(cond) with cond false: execution halts, nothing is changed.
AssertFails(name, arg) ==
    /\ pc' = "halt"
    /\ lastOp' = CallRecord(name, arg, Raw, Self, NoArg)
    /\ UNCHANGED <<allocator_, stack_, stackTop_, stackEnd_,
                   initialCapacity_, heap, allocated, exhausted, it, trav>>

\* Round trips are followed while no cursor exists.
Tracked(r) == IF it = NoIt THEN r ELSE NoRoundTrip

\* A call other than push(const T&) on the array: the histories of pushes
\* and round trips end.
Mutation == onlyPush' = FALSE /\ pushed' = <<>> /\ roundTrip' = NoRoundTrip

\* Vector(vectorCapacity, allocator): the member initialisers, then the two
\* CSOUP_ASSERTs.
Constructed(vectorCapacity, allocator) ==
    /\ allocator_ = allocator
    /\ stack_ = NULL
    /\ stackTop_ = NULL
    /\ stackEnd_ = NULL
    /\ initialCapacity_ = vectorCapacity
    /\ heap = [b \in Blocks |-> <<>>]
    /\ allocated = {}
    /\ exhausted = FALSE
    /\ pc = IF VectorPre(vectorCapacity, allocator) THEN "idle" ELSE "halt"
    /\ lastOp = IF VectorPre(vectorCapacity, allocator) THEN NoCall
                ELSE [NoCall EXCEPT !.name = "Vector", !.arg = vectorCapacity]
    /\ pushed = <<>>
    /\ onlyPush = TRUE
    /\ roundTrip = NoRoundTrip
    /\ it = NoIt
    /\ trav = NoTrav

Init ==
    \E vectorCapacity \in 0..MaxInit : \E allocator \in {NULL, SoundAllocator} :
        Constructed(vectorCapacity, allocator)

\* The array is given an allocator that can run out of memory.
InitOOM ==
    \E vectorCapacity \in 1..MaxInit :
        Constructed(vectorCapacity, ExhaustibleAllocator)

Push ==
    /\ pc = "idle"
    /\ \E obj \in Val :
        \E w \in {push(Self, obj, p) : p \in ReallocResults(Self, stack_)} :
            /\ InBounds(w, onlyPush)
            /\ Return("push", NoArg, obj, w, NoArg)
            /\ onlyPush' = onlyPush
            /\ pushed' = IF onlyPush THEN Append(pushed, obj) ELSE pushed
            /\ roundTrip' = Tracked([kind |-> "push", arg |-> NoArg,
                                     pre |-> Elems(Self)])

\* new (v.push()) T(obj): the caller constructs into the slot it is handed.
PushSlot ==
    /\ pc = "idle"
    /\ \E obj \in Val :
        \E w \in {pushSlot(Self, p) : p \in ReallocResults(Self, stack_)} :
            /\ InBounds(w, FALSE)
            /\ Return("pushSlot", NoArg, obj,
                      Construct(w, w.stackTop_ - 1, obj), w.stackTop_ - 1)
            /\ Mutation

Pop ==
    /\ pc = "idle"
    /\ IF popPre(Self)
       THEN /\ InBounds(pop(Self), FALSE)
            /\ Return("pop", NoArg, Raw, pop(Self), NoArg)
       ELSE AssertFails("pop", NoArg)
    /\ onlyPush' = FALSE
    /\ pushed' = <<>>
    /\ roundTrip' = IF popPre(Self) /\ roundTrip.kind = "push"
                    THEN Tracked([roundTrip EXCEPT !.kind = "push;pop"])
                    ELSE NoRoundTrip

Clear ==
    /\ pc = "idle"
    /\ InBounds(clear(Self), FALSE)
    /\ Return("clear", NoArg, Raw, clear(Self), NoArg)
    /\ Mutation

ShrinkToFit ==
    /\ pc = "idle"
    /\ \E w \in {shrinkToFit(Self, p) : p \in ReallocResults(Self, stack_)} :
            /\ InBounds(w, FALSE)
            /\ Return("shrinkToFit", NoArg, Raw, w, NoArg)
            /\ Mutation

Reserve ==
    /\ pc = "idle"
    /\ \E n \in Counts :
        \E w \in {reserve(Self, n, p) : p \in ReallocResults(Self, stack_)} :
            /\ InBounds(w, FALSE)
            /\ Return("reserve", n, Raw, w, NoArg)
            /\ Mutation

Insert ==
    /\ pc = "idle"
    /\ \E index \in Indexes : \E obj \in Val :
        \E w \in {insert(Self, index, obj, p) : p \in ReallocResults(Self, stack_)} :
            /\ InBounds(w, FALSE)
            /\ Return("insert", index, obj, w, NoArg)
            /\ onlyPush' = FALSE
            /\ pushed' = <<>>
            /\ roundTrip' = Tracked([kind |-> "insert", arg |-> index,
                                     pre |-> Elems(Self)])

\* new (v.insert(index)) T(obj): the caller constructs into the slot it is
\* handed.
InsertSlot ==
    /\ pc = "idle"
    /\ \E index \in Indexes : \E obj \in Val :
        \E w \in {insertSlot(Self, index, p) : p \in ReallocResults(Self, stack_)} :
            /\ InBounds(w, FALSE)
            /\ Return("insertSlot", index, obj,
                      Construct(w, w.stack_ + Min(index, size(Self)), obj),
                      w.stack_ + Min(index, size(Self)))
            /\ Mutation

Remove ==
    /\ pc = "idle"
    /\ \E index \in Indexes :
        /\ IF removePre(Self, index)
           THEN /\ InBounds(remove(Self, index), FALSE)
                /\ Return("remove", index, Raw, remove(Self, index), NoArg)
           ELSE AssertFails("remove", index)
        /\ onlyPush' = FALSE
        /\ pushed' = <<>>
        /\ roundTrip' = IF /\ removePre(Self, index)
                           /\ roundTrip.kind = "insert"
                           /\ roundTrip.arg = index
                        THEN Tracked([roundTrip EXCEPT
                                          !.kind = "insert;remove"])
                        ELSE NoRoundTrip

At ==
    /\ pc = "idle"
    /\ \E i \in Indexes :
        /\ IF atPre(Self, i)
           THEN Return("at", i, Raw, Self, at(Self, i))
           ELSE AssertFails("at", i)
        /\ UNCHANGED <<onlyPush, pushed, roundTrip>>

Back ==
    /\ pc = "idle"
    /\ IF backPre(Self)
       THEN Return("back", NoArg, Raw, Self, back(Self))
       ELSE AssertFails("back", NoArg)
    /\ UNCHANGED <<onlyPush, pushed, roundTrip>>

Front ==
    /\ pc = "idle"
    /\ IF frontPre(Self)
       THEN Return("front", NoArg, Raw, Self, front(Self))
       ELSE AssertFails("front", NoArg)
    /\ UNCHANGED <<onlyPush, pushed, roundTrip>>

\* The array goes out of scope.
Destroy ==
    /\ pc = "idle"
    /\ Finish("~Vector", NoArg, Raw, VectorDtor(Self), NoArg, "destroyed")
    /\ Mutation

\* A member function of the cursor, or begin() or end(), ran to completion
\* and returned ret; the cursor is then c.  The call is recorded with the
\* position the cursor had before it.
ItReturn(name, c, ret) ==
    /\ pc' = "returned"
    /\ lastOp' = CallRecord(name, it.pos_, Raw, Self, ret)
    /\ it' = c
    /\ Mutation
    /\ UNCHANGED <<allocator_, stack_, stackTop_, stackEnd_,
                   initialCapacity_, heap, allocated, exhausted>>

\* A CSOUP_ASSERT of the cursor fails.
ItAssertFails(name) ==
    /\ AssertFails(name, it.pos_)
    /\ Mutation

\* it = v.begin(): a traversal starts, with data() as its next call (or
\* hasNext(), which ends it, when there is nothing to read).
Begin ==
    /\ pc = "idle"
    /\ capacity(Self) <= MaxItCap
    /\ size(Self) <= MaxItLen
    /\ ItReturn("begin", begin(Self), NoArg)
    /\ trav' = [expect |-> "data", seen |-> <<>>]

End ==
    /\ pc = "idle"
    /\ capacity(Self) <= MaxItCap
    /\ size(Self) <= MaxItLen
    /\ ItReturn("end", end(Self), NoArg)
    /\ trav' = NoTrav

ItHasNext ==
    /\ pc = "idle"
    /\ it # NoIt
    /\ ItReturn("hasNext", it, IF hasNext(it) THEN 1 ELSE 0)
    /\ trav' = IF trav.expect = "hasNext"
               THEN [trav EXCEPT !.expect = IF hasNext(it) THEN "next"
                                            ELSE "done"]
               ELSE NoTrav

ItNext ==
    /\ pc = "idle"
    /\ it # NoIt
    /\ IF nextPre(it)
       THEN /\ ItReturn("next", next(it), NoArg)
            /\ trav' = IF trav.expect = "next"
                       THEN [trav EXCEPT !.expect = "data"]
                       ELSE NoTrav
       ELSE ItAssertFails("next")

ItPrevious ==
    /\ pc = "idle"
    /\ it # NoIt
    /\ IF previousPre(it)
       THEN ItReturn("previous", previous(it), NoArg) /\ trav' = NoTrav
       ELSE ItAssertFails("previous")

\* p = it.data(); the traversal reads *p.
ItData ==
    /\ pc = "idle"
    /\ it # NoIt
    /\ IF dataPre(it)
       THEN /\ ItReturn("data", it, data(it))
            /\ trav' = IF trav.expect = "data"
                       THEN [expect |-> "hasNext",
                             seen |-> Append(trav.seen, Deref(Self, data(it)))]
                       ELSE NoTrav
       ELSE ItAssertFails("data")

\* The cursor goes out of scope.
Drop ==
    /\ pc = "idle"
    /\ it # NoIt
    /\ it' = NoIt
    /\ trav' = NoTrav
    /\ UNCHANGED <<allocator_, stack_, stackTop_, stackEnd_,
                   initialCapacity_, heap, allocated, exhausted, pc, lastOp,
                   pushed, onlyPush, roundTrip>>

\* Control is back in the caller; the record of the call is dropped.
Resume ==
    /\ pc = "returned"
    /\ pc' = "idle"
    /\ lastOp' = NoCall
    /\ UNCHANGED <<allocator_, stack_, stackTop_, stackEnd_,
                   initialCapacity_, heap, allocated, exhausted, pushed,
                   onlyPush, roundTrip, it, trav>>

Next ==
    \/ Push
    \/ PushSlot
    \/ Pop
    \/ Clear
    \/ ShrinkToFit
    \/ Reserve
    \/ Insert
    \/ InsertSlot
    \/ Remove
    \/ At
    \/ Back
    \/ Front
    \/ Destroy
    \/ Begin
    \/ End
    \/ ItHasNext
    \/ ItNext
    \/ ItPrevious
    \/ ItData
    \/ Drop
    \/ Resume

Spec == Init /\ [][Next]_vars

\* The same program with an allocator whose realloc can return null.
SpecOOM == InitOOM /\ [][Next]_vars

TypeOK ==
    /\ stack_ \in {NULL} \cup {BaseAddr(b) : b \in Blocks}
    /\ pc \in {"idle", "returned", "halt", "destroyed", "undefined"}
    /\ initialCapacity_ \in 0..MaxInit
    /\ it = NoIt \/ (it.pos_ \in 0..MaxItLen /\ it.size_ \in 0..MaxItLen)
    /\ \A k \in 1..size(Self) : Elems(Self)[k] \in Val \cup {Raw}

\* ---- what the operations are required to do -----------------------------
Max(a, b) == IF a < b THEN b ELSE a

\* ceil(c / 2)
CeilHalf(c) == c - (c \div 2)

\* The sequence s with v put at 0-based position k.
InsertAt(s, k, v) == SubSeq(s, 1, k) \o <<v>> \o SubSeq(s, k + 1, Len(s))

\* The sequence s without its element at 0-based position k.
RemoveAt(s, k) == SubSeq(s, 1, k) \o SubSeq(s, k + 2, Len(s))

\* C1: after push(x1), ..., push(xn) on a newly constructed array, size() is
\* n and at(i) yields x(i+1) for every i < n, whatever reallocations the
\* pushes triggered.
C1_PushKeepsOrder ==
    onlyPush =>
        /\ size(Self) = Len(pushed)
        /\ \A i \in 0..(Len(pushed) - 1) :
              atPre(Self, i) /\ Deref(Self, at(Self, i)) = pushed[i + 1]

C1_Witness ==
    /\ onlyPush
    /\ lastOp.name = "push"
    /\ Reallocated(lastOp)
    /\ initialCapacity_ = 1
    /\ pushed = <<1, 2, 3, 1>>

\* C2: base <= top <= end in every reachable state, and right after a
\* reallocation (when size() is still the size before the call) the new
\* capacity is at least size().
C2_SizeWithinCapacity ==
    /\ stack_ <= stackTop_
    /\ stackTop_ <= stackEnd_
    /\ Reallocated(lastOp) => Len(lastOp.pre) <= capacity(Self)

C2_Witness ==
    /\ lastOp.name = "push"
    /\ Reallocated(lastOp)
    /\ size(Self) = 3
    /\ capacity(Self) = 3

\* C3 (as claimed): after reserve(n), capacity() >= n, and size() and the
\* element sequence are those before the call.
C3_ReserveGuarantee ==
    lastOp.name = "reserve" =>
        /\ capacity(Self) >= lastOp.arg
        /\ size(Self) = Len(lastOp.pre)
        /\ Elems(Self) = lastOp.pre

\* C4 (as claimed): a push made while size() < capacity() performs no
\* reallocation and leaves capacity() unchanged.
C4_PushWithinCapacity ==
    (lastOp.name = "push" /\ Len(lastOp.pre) < lastOp.preCap) =>
        /\ ~Reallocated(lastOp)
        /\ capacity(Self) = lastOp.preCap

\* C5: a push that reallocates makes the capacity initialCapacity when there
\* is no buffer, and otherwise oldCapacity + ceil(oldCapacity / 2), raised to
\* the needed size if that is larger; with initialCapacity 1 the capacities
\* after the first five pushes are 1, 2, 3, 5, 8.
C5_GrowthRule ==
    /\ (lastOp.name \in {"push", "pushSlot"} /\ Reallocated(lastOp)) =>
          capacity(Self) =
              IF lastOp.preStack = NULL THEN initialCapacity_
              ELSE Max(lastOp.preCap + CeilHalf(lastOp.preCap),
                       Len(lastOp.pre) + 1)
    /\ (onlyPush /\ initialCapacity_ = 1 /\ Len(pushed) \in 1..5) =>
          capacity(Self) = <<1, 2, 3, 5, 8>>[Len(pushed)]

C5_Witness ==
    /\ onlyPush
    /\ initialCapacity_ = 1
    /\ Len(pushed) = 5
    /\ lastOp.name = "push"
    /\ Reallocated(lastOp)
    /\ lastOp.preCap = 5
    /\ capacity(Self) = 8

\* C6: shrinkToFit() on a non-empty array leaves capacity() = size() with
\* size() and the elements unchanged; on an empty array it releases the
\* buffer and leaves base = top = end = null.
C6_ShrinkToFit ==
    lastOp.name = "shrinkToFit" =>
        IF lastOp.pre # <<>>
        THEN /\ capacity(Self) = size(Self)
             /\ size(Self) = Len(lastOp.pre)
             /\ Elems(Self) = lastOp.pre
        ELSE /\ stack_ = NULL
             /\ stackTop_ = NULL
             /\ stackEnd_ = NULL
             /\ Released(lastOp)
             /\ allocated = {}

C6_Witness ==
    /\ lastOp.name = "shrinkToFit"
    /\ Reallocated(lastOp)
    /\ lastOp.pre = <<1, 2>>
    /\ lastOp.preCap = 3
    /\ capacity(Self) = 2

\* C7: insert(i, v) with i <= size() immediately followed by remove(i) leaves
\* size() and the element sequence as they were before the insert.
C7_InsertRemoveRoundTrip ==
    (roundTrip.kind = "insert;remove" /\ roundTrip.arg <= Len(roundTrip.pre))
        => /\ size(Self) = Len(roundTrip.pre)
           /\ Elems(Self) = roundTrip.pre

C7_Witness ==
    /\ roundTrip.kind = "insert;remove"
    /\ roundTrip.arg = 1
    /\ roundTrip.pre = <<1, 3>>
    /\ lastOp.name = "remove"
    /\ pc = "returned"

\* C8: remove(i) with i < size() deletes exactly the element at position i:
\* the elements before keep their index, those after move down by one,
\* size() drops by 1 and capacity() is unchanged.
C8_RemoveDeletesOne ==
    (lastOp.name = "remove" /\ pc = "returned") =>
        /\ Elems(Self) = RemoveAt(lastOp.pre, lastOp.arg)
        /\ size(Self) = Len(lastOp.pre) - 1
        /\ capacity(Self) = lastOp.preCap

C8_Witness ==
    /\ lastOp.name = "remove"
    /\ pc = "returned"
    /\ lastOp.pre = <<1, 2, 3>>
    /\ lastOp.arg = 1
    /\ Elems(Self) = <<1, 3>>

\* C9: insert(i, v) puts v at position min(i, size()) and keeps all prior
\* elements in order (those at or after the position move up by one), with
\* size() increased by 1, also when it reallocates; the slot form returns
\* the slot at that position.
C9_InsertPlacesValue ==
    /\ lastOp.name \in {"insert", "insertSlot"} =>
          /\ Elems(Self) = InsertAt(lastOp.pre,
                                    Min(lastOp.arg, Len(lastOp.pre)),
                                    lastOp.obj)
          /\ size(Self) = Len(lastOp.pre) + 1
    /\ lastOp.name = "insertSlot" =>
          lastOp.ret = stack_ + Min(lastOp.arg, Len(lastOp.pre))

C9_Witness ==
    /\ lastOp.name = "insert"
    /\ Reallocated(lastOp)
    /\ lastOp.pre = <<1, 2>>
    /\ lastOp.arg = 3
    /\ lastOp.obj = 3
    /\ Elems(Self) = <<1, 2, 3>>

\* C10: push(x) followed by pop() restores size() and the element sequence,
\* and at(oldSize) then fails its precondition check.
C10_PushPopRoundTrip ==
    roundTrip.kind = "push;pop" =>
        /\ size(Self) = Len(roundTrip.pre)
        /\ Elems(Self) = roundTrip.pre
        /\ ~atPre(Self, Len(roundTrip.pre))
        /\ (lastOp.name = "at" /\ lastOp.arg = Len(roundTrip.pre))
              => pc = "halt"

C10_Witness ==
    /\ roundTrip.kind = "push;pop"
    /\ roundTrip.pre = <<2, 1>>
    /\ lastOp.name = "at"
    /\ lastOp.arg = 2
    /\ pc = "halt"

\* C11: with no mutation meanwhile, begin(), data(), and then next() and
\* data() for as long as hasNext() is true, reads exactly the elements
\* at(0), ..., at(size() - 1) in that order, every call passing its
\* precondition check; on an empty array begin() and end() are the same
\* cursor and hasNext() is false on it.
C11_ForwardTraversal ==
    /\ trav.expect # "none" =>
          /\ it = [begin(Self) EXCEPT !.pos_ = it.pos_]
          /\ Len(trav.seen) <= size(Self)
          /\ trav.seen = SubSeq(Elems(Self), 1, Len(trav.seen))
    /\ (trav.expect = "data" /\ ~empty(Self)) =>
          dataPre(it) /\ it.pos_ = Len(trav.seen)
    /\ trav.expect = "next" => nextPre(it)
    /\ trav.expect = "done" => trav.seen = Elems(Self)
    /\ (pc = "idle" /\ empty(Self)) =>
          begin(Self) = end(Self) /\ ~hasNext(begin(Self))

C11_Witness ==
    /\ trav.expect = "done"
    /\ trav.seen = <<2, 1>>
    /\ lastOp.name = "hasNext"
    /\ lastOp.ret = 0
    /\ it.pos_ = 1

C13_ClearKeepsBuffer ==
    lastOp.name = "clear" =>
        /\ size(Self) = 0
        /\ stackTop_ = stack_
        /\ capacity(Self) = lastOp.preCap
        /\ stack_ = lastOp.preStack
        /\ lastOp.calls = <<>>

C13_Witness ==
    /\ lastOp.name = "clear"
    /\ lastOp.pre = <<1, 2>>
    /\ lastOp.preCap = 3
    /\ capacity(Self) = 3
    /\ empty(Self)

\* C14 (as claimed): reserve(n) with n <= capacity(), also n = capacity()
\* with size() < n, leaves capacity(), size(), the buffer and the elements
\* unchanged and makes no allocator call.
C14_ReserveNoOp ==
    (lastOp.name = "reserve" /\ lastOp.arg <= lastOp.preCap) =>
        /\ capacity(Self) = lastOp.preCap
        /\ size(Self) = Len(lastOp.pre)
        /\ stack_ = lastOp.preStack
        /\ Elems(Self) = lastOp.pre
        /\ lastOp.calls = <<>>

\* C15 (as claimed): on a non-empty array a cursor from begin() reaches
\* position = size snapshot by next() calls that each satisfy hasNext(); the
\* calls are forced, so this says that where hasNext() first is false the
\* position is the size snapshot.
C15_NextReachesEnd ==
    (trav.expect = "done" /\ it.size_ >= 1) => it.pos_ = it.size_

\* C16 (as claimed): whenever data() passes its check and returns, the slot
\* it returns is a live element of the array's current buffer: the cursor's
\* base is the array's base and its position is below size().
C16_NoStaleAccess ==
    (lastOp.name = "data" /\ pc = "returned") =>
        /\ it.base_ = stack_
        /\ lastOp.ret - stack_ >= 0
        /\ lastOp.ret - stack_ < size(Self)

\* C17 (as claimed): also when realloc returns null, no call writes an
\* element into storage that was not obtained, and the capacity() reported
\* is backed by storage the array holds.
C17_NoNullBuffer ==
    /\ pc # "undefined"
    /\ (pc # "destroyed" /\ capacity(Self) > 0) =>
          Owned(Self, stack_, capacity(Self))

\* C18: every call destroys only live elements and gives back no storage
\* that holds one; the elements it constructs less those it destroys is the
\* change of size(); the live elements are at every moment exactly the cells
\* of [base, top); after ~Vector none is left.
C18_LifetimeBalanced ==
    /\ lastOp.dead = 0
    /\ lastOp.lost = 0
    /\ lastOp.name # "none" =>
          lastOp.ctors - lastOp.dtors = size(Self) - Len(lastOp.pre)
    /\ \A b \in Blocks : \A k \in 1..Len(heap[b]) :
          heap[b][k] # Raw <=>
              /\ pc # "destroyed"
              /\ stack_ = BaseAddr(b)
              /\ k <= size(Self)
    /\ pc = "destroyed" => lastOp.dtors = Len(lastOp.pre)

C18_Witness ==
    /\ pc = "destroyed"
    /\ lastOp.pre = <<3, 1>>
    /\ lastOp.dtors = 2
    /\ lastOp.preCap = 3

\* C19: no call uses a pointer to storage the array does not hold (as the
\* argument of realloc or free, or to read or write); the only block handed
\* out is the current buffer, of capacity() cells; ~Vector makes one free
\* call and leaves no block handed out, and when there is no buffer (never
\* allocated, or released by shrinkToFit) that call frees null and a push
\* allocates a buffer of initialCapacity.
C19_BufferOwnership ==
    /\ pc # "undefined"
    /\ pc # "destroyed" =>
          /\ allocated = IF stack_ = NULL THEN {} ELSE {BlockOf(stack_)}
          /\ OffsetOf(stack_) = 0
          /\ stack_ # NULL => Len(heap[BlockOf(stack_)]) = capacity(Self)
          /\ stack_ = NULL => stackTop_ = NULL /\ stackEnd_ = NULL
    /\ pc = "destroyed" =>
          /\ allocated = {}
          /\ lastOp.calls = <<"free">>
    /\ (lastOp.name = "shrinkToFit" /\ lastOp.pre = <<>>) =>
          stack_ = NULL /\ lastOp.calls = <<"free">>
    /\ (lastOp.name \in {"push", "pushSlot", "insert", "insertSlot"}
            /\ lastOp.preStack = NULL) =>
          /\ lastOp.calls = <<"realloc">>
          /\ capacity(Self) = initialCapacity_

C19_Witness ==
    /\ pc = "destroyed"
    /\ lastOp.preStack # NULL
    /\ lastOp.pre = <<2>>
    /\ lastOp.calls = <<"free">>
    /\ allocated = {}

=============================================================================
